---- MODULE Spec2Model ----
(***************************************************************************)
(* Batched sink dispatch of two connectors:                                *)
(*   - the redis processor (redisProc): ProcessBatch, the four fixed       *)
(*     operators and the generic command path execRaw, with their retry    *)
(*     loops, against a store of counters and sets;                        *)
(*   - the cache output (CacheWriter): NewCacheWriter, WriteWithContext    *)
(*     and writeMulti, against a named cache of the resource registry.     *)
(* Spec is the redis processor, CacheSpec the cache output.                *)
(***************************************************************************)
EXTENDS Integers, Sequences, FiniteSets, TLC

\* Longest batch handed to ProcessBatch / WriteWithContext.
MaxLen == 2
\* Largest configured value of the `retries` field.
MaxRetries == 1

(***************************************************************************)
(* Values                                                                  *)
(***************************************************************************)

\* Keys the key template / args mapping resolves to.
Keys == {"ash", "bob"}

\* A JSON number as decoded with UseNumber (json.Number keeps the text):
\* "10", "-2" and "1.5" (n is the text's value times ten for the float).
JInt(n) == [t |-> "jint", n |-> n]
JFloat(n) == [t |-> "jfloat", n |-> n]
NoVal == [t |-> "none", n |-> 0]
Vals == {JInt(10), JInt(-2), JFloat(15)}

\* What the args mapping does with a message is its shape: "kv" yields the
\* array [key, val], "nonarr" a value that is no array, "maperr" fails, and
\* "first" yields [key of the first message of the batch, val] and fails
\* when that message has no key.

NoErr == [wrapped |-> FALSE, cause |-> "none"]

\* Message content: the input document, or a result written by SetBytes /
\* SetStructured.  One record shape for all of them.
InContent(k, v, s) ==
    [t |-> "in", key |-> k, val |-> v, shape |-> s, n |-> 0, ks |-> {}]
BytesInt(n) ==
    [t |-> "bytes", key |-> "", val |-> NoVal, shape |-> "", n |-> n, ks |-> {}]
StructInt(n) ==
    [t |-> "structint", key |-> "", val |-> NoVal, shape |-> "", n |-> n, ks |-> {}]
StructList(ks) ==
    [t |-> "structlist", key |-> "", val |-> NoVal, shape |-> "", n |-> 0, ks |-> ks]

Msg(c) == [content |-> c, err |-> NoErr]

\* Messages the engine hands over: in fixed-operator mode the args mapping is
\* not evaluated, so one shape stands for all.
OperatorMsgs ==
    {Msg(InContent("ash", v, "kv")) : v \in Vals} \cup {Msg(InContent("bob", JInt(10), "kv"))}
CommandMsgs ==
    OperatorMsgs \cup
    {Msg(InContent("ash", JInt(10), s)) : s \in {"nonarr", "maperr"}} \cup
    {Msg(InContent("bob", JInt(-2), "first"))}

RECURSIVE SeqsUpTo(_, _)
SeqsUpTo(S, n) ==
    IF n = 0 THEN {<<>>}
    ELSE LET shorter == SeqsUpTo(S, n - 1)
         IN  shorter \cup {Append(q, x) : q \in {r \in shorter : Len(r) = n - 1}, x \in S}

Batches(S) == {b \in SeqsUpTo(S, MaxLen) : Len(b) >= 1}

(***************************************************************************)
(* State                                                                   *)
(***************************************************************************)
VARIABLES
    \* redisProc fields
    operator,      \* "none" or the fixed operator
    command,       \* the command template ("" when not configured)
    retries,
    \* the redis server and the context of the dispatch
    store,
    ctxDone,
    \* ProcessBatch / operator / execRaw locals
    inBatch,
    newMsg,
    index,
    pc,
    retryI,
    curArgs,
    \* bookkeeping of the current dispatch, per message
    calls,
    sleeps,
    opRet,
    succAt,
    succRes,
    cancelAt,
    visited,
    \* the messages whose call had succeeded when the context was cancelled
    doneAtCancel,
    \* per message, the branch of the loop body that handled it
    path,
    \* the resource registry: whether the target cache is present
    cacheExists,
    \* NewCacheWriter: its outcome and what it was given
    cw,
    cwConf,
    \* WriteWithContext / writeMulti locals and what the call did
    wpc,
    wBatch,
    wIdx,
    items,
    wErr,
    wResolved,
    lookups,
    nSet,
    lastSet,
    nSetMulti,
    lastItems,
    \* whether the writer was ever handed a batch
    dispatched,
    \* which of "notfound" and "nil" earlier calls of WriteWithContext returned
    wHist,
    \* the messages of the batch in hand that the writer marked with an error
    wItemErrs,
    \* calls of WriteWithContext in flight together on one writer: the locals
    \* of each call, the items maps, and the calls the cache received
    cc,
    cItems,
    cLog

redisVars ==
    <<operator, command, retries, store, ctxDone, inBatch, newMsg, index, pc,
      retryI, curArgs, calls, sleeps, opRet, succAt, succRes, cancelAt, visited,
      doneAtCancel, path>>

cacheVars ==
    <<cacheExists, cw, cwConf, wpc, wBatch, wIdx, items, wErr, wResolved, lookups,
      nSet, lastSet, nSetMulti, lastItems, dispatched, wHist, wItemErrs>>

concVars == <<cc, cItems, cLog>>

vars == <<redisVars, cacheVars, concVars>>

(***************************************************************************)
(* The redis processor                                                     *)
(***************************************************************************)

Operators == {"keys", "scard", "sadd", "incrby"}

\* operator / command of a constructed processor: a fixed operator alone, a
\* command alone, or both fields present (the lint rule only warns).
Configs ==
    {[operator |-> o, command |-> ""] : o \in Operators}
        \cup {[operator |-> "none", command |-> "incrby"],
              [operator |-> "scard", command |-> "incrby"]}

EmptyStore == [counters |-> [k \in Keys |-> 0], sets |-> [k \in Keys |-> {}]]

NoArgs == [cmd |-> "", key |-> "ash", arg |-> NoVal]
NoRes == [n |-> 0, ks |-> {}, list |-> FALSE]
IntRes(n) == [n |-> n, ks |-> {}, list |-> FALSE]
ListRes(ks) == [n |-> 0, ks |-> ks, list |-> TRUE]

\* The server's execution of one command.  A command it rejects (INCRBY
\* with an amount that is no integer) leaves the store alone.
StoreDo(cmd, key, arg, st) ==
    CASE cmd = "incrby" ->
           IF arg.t = "int"
           THEN [ok |-> TRUE, res |-> IntRes(st.counters[key] + arg.n),
                 store |-> [st EXCEPT !.counters[key] = @ + arg.n]]
           ELSE [ok |-> FALSE, res |-> NoRes, store |-> st]
      [] cmd = "sadd" ->
           [ok |-> TRUE, res |-> IntRes(IF arg \in st.sets[key] THEN 0 ELSE 1),
            store |-> [st EXCEPT !.sets[key] = @ \cup {arg}]]
      [] cmd = "scard" ->
           [ok |-> TRUE, res |-> IntRes(Cardinality(st.sets[key])), store |-> st]
      [] cmd = "keys" ->
           [ok |-> TRUE,
            res |-> ListRes(IF st.counters[key] # 0 \/ st.sets[key] # {}
                            THEN {key} ELSE {}),
            store |-> st]
      [] OTHER -> [ok |-> FALSE, res |-> NoRes, store |-> st]

\* One invocation of the client: r.client.Keys/SCard/SAdd/IncrBy(...).Result()
\* (no context) or r.client.DoContext(ctx, ...).Result().  fail is the
\* transport's choice; a call made with a context that is done returns the
\* context's error without reaching the server.
ClientCallIgnoringCtx(withCtx, a, st, done, fail) ==
    LET d == StoreDo(a.cmd, a.key, a.arg, st)
    IN  IF ~d.ok THEN [err |-> "rejected", res |-> NoRes, store |-> st]
        ELSE IF fail THEN [err |-> "io", res |-> NoRes, store |-> st]
        ELSE [err |-> "none", res |-> d.res, store |-> d.store]
ClientCall(withCtx, a, st, done, fail) ==
    IF withCtx /\ done THEN [err |-> "ctx", res |-> NoRes, store |-> st]
    ELSE LET d == StoreDo(a.cmd, a.key, a.arg, st)
         IN  IF ~d.ok THEN [err |-> "rejected", res |-> NoRes, store |-> st]
             ELSE IF fail THEN [err |-> "io", res |-> NoRes, store |-> st]
             ELSE [err |-> "none", res |-> d.res, store |-> d.store]

\* for i := 0; i <= r.retries && err != nil; i++
RetryGuardNoErrTest(i, err) == i <= retries
RetryGuard(i, err) == i <= retries /\ err # "none"

\* strconv.Atoi of the message bytes.
Atoi(v) == IF v.t = "jint" THEN [ok |-> TRUE, n |-> v.n] ELSE [ok |-> FALSE, n |-> 0]

\* json.Number arguments: Int64, else Float64, else the text; other values
\* are passed as they are.
NormaliseArg(v) ==
    IF v.t \notin {"jint", "jfloat", "jbig"} THEN v
    ELSE IF v.t = "jint" THEN [t |-> "int", n |-> v.n]
    ELSE IF v.t = "jfloat" THEN [t |-> "float", n |-> v.n]
    ELSE [t |-> "str", n |-> v.n]

\* What a fixed operator does before its first call: part.AsBytes() and, for
\* incrby, strconv.Atoi.
OperatorPrepareWithoutAtoiTest(op, key, part) ==
    [err |-> "none",
     args |-> [cmd |-> op, key |-> key,
               arg |-> IF op = "incrby" THEN [t |-> "int", n |-> part.content.val.n]
                       ELSE IF op = "sadd" THEN part.content.val ELSE NoVal]]
OperatorPrepare(op, key, part) ==
    CASE op = "incrby" ->
           LET a == Atoi(part.content.val)
           IN  IF a.ok
               THEN [err |-> "none",
                     args |-> [cmd |-> op, key |-> key, arg |-> [t |-> "int", n |-> a.n]]]
               ELSE [err |-> "atoi", args |-> NoArgs]
      [] op = "sadd" ->
           [err |-> "none", args |-> [cmd |-> op, key |-> key, arg |-> part.content.val]]
      [] OTHER ->
           [err |-> "none", args |-> [cmd |-> op, key |-> key, arg |-> NoVal]]

\* execRaw up to the first call: the args mapping on inBatch at index, the
\* array test, the normalisation, the command.
ExecRawPrepareFirst(batch, idx, cmd) ==
    LET c == batch[1].content
    IN  [err |-> "none",
         args |-> [cmd |-> cmd, key |-> c.key, arg |-> NormaliseArg(c.val)]]
ExecRawPrepareOnCopy(batch, idx, cmd) ==
    LET c == newMsg[idx].content
        f == newMsg[1].content
    IN  CASE c.shape = "maperr" -> [err |-> "mapping", args |-> NoArgs]
          [] c.shape = "nonarr" -> [err |-> "nonarray", args |-> NoArgs]
          [] c.shape = "first" ->
               IF f.t # "in" THEN [err |-> "mapping", args |-> NoArgs]
               ELSE [err |-> "none",
                     args |-> [cmd |-> cmd, key |-> f.key, arg |-> NormaliseArg(c.val)]]
          [] OTHER ->
               [err |-> "none",
                args |-> [cmd |-> cmd, key |-> c.key, arg |-> NormaliseArg(c.val)]]
ExecRawPrepare(batch, idx, cmd) ==
    LET c == batch[idx].content
        f == batch[1].content
    IN  CASE c.shape = "maperr" -> [err |-> "mapping", args |-> NoArgs]
          [] c.shape = "nonarr" -> [err |-> "nonarray", args |-> NoArgs]
          [] c.shape = "first" ->
               IF f.t # "in" THEN [err |-> "mapping", args |-> NoArgs]
               ELSE [err |-> "none",
                     args |-> [cmd |-> cmd, key |-> f.key, arg |-> NormaliseArg(c.val)]]
          [] OTHER ->
               [err |-> "none",
                args |-> [cmd |-> cmd, key |-> c.key, arg |-> NormaliseArg(c.val)]]

\* The content a successful call leaves: SetStructured / SetBytes(AppendInt).
ResultContent(op, res) ==
    IF op = "none"
    THEN IF res.list THEN StructList(res.ks) ELSE StructInt(res.n)
    ELSE IF op = "keys" THEN StructList(res.ks) ELSE BytesInt(res.n)

\* The message after its operator / execRaw returned e: part.SetError on an
\* error (wrapped in fixed-operator mode), the result as content otherwise.
ReturnedWithContentCleared(op, part, e, res) ==
    IF e # "none"
    THEN [part EXCEPT !.err = [wrapped |-> op # "none", cause |-> e],
                      !.content = BytesInt(0)]
    ELSE [part EXCEPT !.content = ResultContent(op, res)]
Returned(op, part, e, res) ==
    IF e # "none"
    THEN [part EXCEPT !.err = [wrapped |-> op # "none", cause |-> e]]
    ELSE [part EXCEPT !.content = ResultContent(op, res)]

\* if r.operator != nil: the branch of the loop body, decided by the operator
\* alone whatever command is configured.
UsesOperatorUnlessCommand(op, cmd) == op # "none" /\ cmd = ""
UsesOperator(op, cmd) == op # "none"

\* The range loop of ProcessBatch: on to the next message whatever e was.
LoopAfterBreakOnError(idx, n, e) == IF idx < n /\ e = "none" THEN "msg" ELSE "done"
LoopAfter(idx, n, e) == IF idx < n THEN "msg" ELSE "done"

(***************************************************************************)
(* The cache output: values and helpers                                    *)
(***************************************************************************)

\* The pieces of a cache batch: what the key and ttl fields resolve to for
\* the message, and its payload.
CacheKeys == {"x1", "x2"}
TTLStrings == {"", "60s", "5m", "abc"}
Payloads == {"p", "q"}
Parts == [key : CacheKeys, ttl : TTLStrings, payload : Payloads]
CacheBatches == SeqsUpTo(Parts, MaxLen)

\* What the single-message path reads at index 0: the first message; of a
\* batch without messages, msg.Get(0) is a part without content, and the key
\* and ttl fields resolve to what their templates give without a message.
PartsAtZero(b) ==
    IF Len(b) >= 1 THEN {b[1]}
    ELSE [key : CacheKeys, ttl : TTLStrings, payload : {""}]

\* time.ParseDuration, in seconds: a number with a unit, or an error.
ParseDuration(s) ==
    CASE s = "60s" -> [ok |-> TRUE, d |-> 60]
      [] s = "5m" -> [ok |-> TRUE, d |-> 300]
      [] OTHER -> [ok |-> FALSE, d |-> 0]

\* var ttl *time.Duration
NilTTL == [set |-> FALSE, d |-> 0]
SomeTTL(d) == [set |-> TRUE, d |-> d]

\* The ttl of message i: nil for the empty string, the parsed duration, or
\* the "ttl field" error.
ResolveTTLIgnoringParseError(ttls) ==
    IF ttls = "" THEN [err |-> "none", ttl |-> NilTTL]
    ELSE LET t == ParseDuration(ttls)
         IN  IF t.ok THEN [err |-> "none", ttl |-> SomeTTL(t.d)]
             ELSE [err |-> "none", ttl |-> NilTTL]
ResolveTTL(ttls) ==
    IF ttls = "" THEN [err |-> "none", ttl |-> NilTTL]
    ELSE LET t == ParseDuration(ttls)
         IN  IF t.ok THEN [err |-> "none", ttl |-> SomeTTL(t.d)]
             ELSE [err |-> "ttl", ttl |-> NilTTL]

\* items := map[string]cache.TTLItem{}; items[key] = TTLItem{Value, TTL}
NoItems == [k \in {} |-> [value |-> "", ttl |-> NilTTL]]
PutItemKeepFirst(m, k, v, ttl) ==
    IF k \in DOMAIN m THEN m ELSE (k :> [value |-> v, ttl |-> ttl]) @@ m
PutItem(m, k, v, ttl) == (k :> [value |-> v, ttl |-> ttl]) @@ m

NoSet == [key |-> "", value |-> "", ttl |-> NilTTL]

\* NewCacheWriter: the two field expressions are compiled, the target probed.
NewCacheWriterNoProbe(keyOk, ttlOk, probe) ==
    IF ~keyOk THEN "failed" ELSE IF ~ttlOk THEN "failed" ELSE "built"
NewCacheWriterResult(keyOk, ttlOk, probe) ==
    IF ~keyOk THEN "failed"
    ELSE IF ~ttlOk THEN "failed"
    ELSE IF ~probe THEN "failed"
    ELSE "built"

\* WriteWithContext: more than one message goes to writeMulti.
IsMultiFromOne(b) == Len(b) >= 1
IsMulti(b) == Len(b) > 1

(***************************************************************************)
(* The redis processor: dispatch                                           *)
(***************************************************************************)

\* The calls in flight together (max_in_flight of the shell), their batches,
\* and what a call makes the cache do.
Writers == {1, 2}
ConcParts == [key : CacheKeys, ttl : {"60s", "abc"}, payload : {"p"}]
ConcBatches == {b \in SeqsUpTo(ConcParts, MaxLen) : Len(b) >= 1}

NoWrite ==
    [kind |-> "none", key |-> "", value |-> "", ttl |-> NilTTL, items |-> NoItems]
SetWrite(k, v, ttl) ==
    [kind |-> "set", key |-> k, value |-> v, ttl |-> ttl, items |-> NoItems]
SetMultiWrite(m) ==
    [kind |-> "setmulti", key |-> "", value |-> "", ttl |-> NilTTL, items |-> m]

\* The locals of a call that has not begun.
CallIdle ==
    [pc |-> "idle", batch |-> <<>>, idx |-> 0, found |-> FALSE, err |-> "unset",
     ans |-> "none", write |-> NoWrite, overlapped |-> FALSE]

\* items := map[string]cache.TTLItem{} is a local of the closure: each call
\* has its own map.
ItemsCellOfTheWriter(w) == 1
ItemsCell(w) == w

\* The writer's locals between two calls of WriteWithContext.
WriteLocalsClear ==
    [wBatch |-> <<>>, wIdx |-> 0, items |-> NoItems, wErr |-> "unset",
     wResolved |-> {}, lookups |-> 0, nSet |-> 0, lastSet |-> NoSet,
     nSetMulti |-> 0, lastItems |-> NoItems]

\* The processor before its first dispatch, the writer before construction.
RedisIdle ==
    /\ store = EmptyStore
    /\ ctxDone = FALSE
    /\ inBatch = <<>>
    /\ newMsg = <<>>
    /\ index = 0
    /\ pc = "idle"
    /\ retryI = 0
    /\ curArgs = NoArgs
    /\ calls = <<>>
    /\ sleeps = <<>>
    /\ opRet = <<>>
    /\ succAt = <<>>
    /\ succRes = <<>>
    /\ cancelAt = <<>>
    /\ visited = {}
    /\ doneAtCancel = {}
    /\ path = <<>>

CacheIdle ==
    /\ cw = "unbuilt"
    /\ cwConf = [keyOk |-> TRUE, ttlOk |-> TRUE, probe |-> TRUE]
    /\ wpc = "idle"
    /\ wBatch = <<>>
    /\ wIdx = 0
    /\ items = NoItems
    /\ wErr = "unset"
    /\ wResolved = {}
    /\ lookups = 0
    /\ nSet = 0
    /\ lastSet = NoSet
    /\ nSetMulti = 0
    /\ lastItems = NoItems
    /\ dispatched = FALSE
    /\ wHist = {}
    /\ wItemErrs = {}
    /\ cc = [w \in Writers |-> CallIdle]
    /\ cItems = [w \in Writers |-> NoItems]
    /\ cLog = {}

Init ==
    /\ \E c \in Configs : operator = c.operator /\ command = c.command
    /\ retries \in 0..MaxRetries
    /\ RedisIdle
    /\ cacheExists = TRUE
    /\ CacheIdle

\* ProcessBatch entry: newMsg := inBatch.Copy().
ProcessBatch ==
    /\ pc = "idle"
    /\ \E b \in Batches(IF operator # "none" THEN OperatorMsgs ELSE CommandMsgs) :
         /\ inBatch' = b
         /\ newMsg' = b
         /\ calls' = [j \in 1..Len(b) |-> 0]
         /\ sleeps' = [j \in 1..Len(b) |-> 0]
         /\ opRet' = [j \in 1..Len(b) |-> "pending"]
         /\ succAt' = [j \in 1..Len(b) |-> 0]
         /\ succRes' = [j \in 1..Len(b) |-> NoRes]
         /\ cancelAt' = [j \in 1..Len(b) |-> -1]
         /\ path' = [j \in 1..Len(b) |-> "none"]
    /\ index' = 1
    /\ pc' = "msg"
    /\ visited' = {}
    /\ UNCHANGED <<operator, command, retries, store, ctxDone, retryI, curArgs,
                   doneAtCancel>>
    /\ UNCHANGED cacheVars
    /\ UNCHANGED concVars

\* The operator / execRaw of message index returns e (and res): ProcessBatch
\* records it on the message and goes on.
ReturnIntoFirst(e, res) ==
    /\ newMsg' = [newMsg EXCEPT ![1] = Returned(operator, @, e, res)]
    /\ opRet' = [opRet EXCEPT ![index] = IF e = "none" THEN "ok" ELSE e]
    /\ pc' = LoopAfter(index, Len(newMsg), e)
    /\ index' = IF pc' = "msg" THEN index + 1 ELSE index
Return(e, res) ==
    /\ newMsg' = [newMsg EXCEPT ![index] = Returned(operator, @, e, res)]
    /\ opRet' = [opRet EXCEPT ![index] = IF e = "none" THEN "ok" ELSE e]
    /\ pc' = LoopAfter(index, Len(newMsg), e)
    /\ index' = IF pc' = "msg" THEN index + 1 ELSE index

\* Head of the loop body for message index: the key or the arguments are
\* resolved; a message that cannot be prepared returns its error at once.
Resolve ==
    /\ pc = "msg"
    /\ visited' = visited \cup {index}
    /\ path' = [path EXCEPT ![index] = IF UsesOperator(operator, command)
                                       THEN "operator" ELSE "execRaw"]
    /\ LET pre == IF UsesOperator(operator, command)
                  THEN OperatorPrepare(operator, inBatch[index].content.key, newMsg[index])
                  ELSE ExecRawPrepare(inBatch, index, command)
       IN  IF pre.err # "none"
           THEN /\ Return(pre.err, NoRes)
                /\ UNCHANGED <<curArgs, retryI>>
           ELSE /\ curArgs' = pre.args
                /\ retryI' = 0
                /\ pc' = "call"
                /\ UNCHANGED <<newMsg, opRet, index>>
    /\ UNCHANGED <<operator, command, retries, store, ctxDone, inBatch,
                   calls, sleeps, succAt, succRes, cancelAt, doneAtCancel>>
    /\ UNCHANGED cacheVars
    /\ UNCHANGED concVars

\* After an invocation that ended out, with i the loop counter the guard is
\* tested with: into the delay, or out of the loop.
AfterCall(out, i) ==
    /\ calls' = [calls EXCEPT ![index] = @ + 1]
    /\ store' = out.store
    /\ succAt' = IF out.err = "none" THEN [succAt EXCEPT ![index] = calls'[index]]
                 ELSE succAt
    /\ succRes' = IF out.err = "none" THEN [succRes EXCEPT ![index] = out.res]
                  ELSE succRes
    /\ retryI' = i
    /\ IF RetryGuard(i, out.err)
       THEN /\ pc' = "sleep"
            /\ sleeps' = [sleeps EXCEPT ![index] = @ + 1]
            /\ UNCHANGED <<newMsg, opRet, index>>
       ELSE /\ Return(out.err, out.res)
            /\ UNCHANGED sleeps
    /\ UNCHANGED <<operator, command, retries, ctxDone, inBatch, curArgs,
                   cancelAt, visited, doneAtCancel, path>>
    /\ UNCHANGED cacheVars
    /\ UNCHANGED concVars

\* The call before the loop.
FirstCall ==
    /\ pc = "call"
    /\ \E fail \in BOOLEAN :
         AfterCall(ClientCall(path[index] = "execRaw", curArgs, store, ctxDone, fail), retryI)

\* <-time.After(r.retryPeriod) returns: only the timer ends the delay.
Sleep ==
    /\ pc = "sleep"
    /\ pc' = "retry"
    /\ UNCHANGED <<operator, command, retries, store, ctxDone, inBatch, newMsg,
                   index, retryI, curArgs, calls, sleeps, opRet, succAt, succRes,
                   cancelAt, visited, doneAtCancel, path>>
    /\ UNCHANGED cacheVars
    /\ UNCHANGED concVars

\* The call in the loop body, then i++ and the guard.
RetryCall ==
    /\ pc = "retry"
    /\ \E fail \in BOOLEAN :
         AfterCall(ClientCall(path[index] = "execRaw", curArgs, store, ctxDone, fail), retryI + 1)

\* The caller cancels the context handed to ProcessBatch.
CancelCtx ==
    /\ ~ctxDone
    /\ pc # "done"
    /\ ctxDone' = TRUE
    /\ cancelAt' = IF pc = "sleep" THEN [cancelAt EXCEPT ![index] = calls[index]]
                   ELSE cancelAt
    /\ doneAtCancel' = {j \in DOMAIN succAt : succAt[j] > 0}
    /\ UNCHANGED <<operator, command, retries, store, inBatch, newMsg, index, pc,
                   retryI, curArgs, calls, sleeps, opRet, succAt, succRes, visited,
                   path>>
    /\ UNCHANGED cacheVars
    /\ UNCHANGED concVars

Next ==
    \/ ProcessBatch
    \/ Resolve
    \/ FirstCall
    \/ Sleep
    \/ RetryCall
    \/ CancelCtx

Spec == Init /\ [][Next]_vars

\* A processor built with a command and no operator.
CommandInit == Init /\ operator = "none"

\* The dispatches of such a processor, whose steps are taken: the goroutine
\* running ProcessBatch is scheduled and the timer of time.After fires.
CommandFairSpec ==
    /\ CommandInit
    /\ [][Next]_vars
    /\ WF_vars(Resolve \/ FirstCall \/ Sleep \/ RetryCall)

(***************************************************************************)
(* The cache output: construction and dispatch                             *)
(***************************************************************************)

CacheInit ==
    /\ operator = "none"
    /\ command = "incrby"
    /\ retries = 0
    /\ RedisIdle
    /\ cacheExists \in BOOLEAN
    /\ CacheIdle

NewCacheWriter ==
    /\ cw = "unbuilt"
    /\ \E keyOk \in BOOLEAN, ttlOk \in BOOLEAN :
         /\ cwConf' = [keyOk |-> keyOk, ttlOk |-> ttlOk, probe |-> cacheExists]
         /\ cw' = NewCacheWriterResult(keyOk, ttlOk, cacheExists)
    /\ UNCHANGED <<cacheExists, wpc, wBatch, wIdx, items, wErr, wResolved, lookups,
                   nSet, lastSet, nSetMulti, lastItems, dispatched, wHist,
                   wItemErrs>>
    /\ UNCHANGED redisVars
    /\ UNCHANGED concVars

\* The target is added to or removed from the registry between dispatches.
RegistryChange ==
    /\ wpc = "idle"
    /\ cacheExists' = ~cacheExists
    /\ UNCHANGED <<cw, cwConf, wpc, wBatch, wIdx, items, wErr, wResolved, lookups,
                   nSet, lastSet, nSetMulti, lastItems, dispatched, wHist,
                   wItemErrs>>
    /\ UNCHANGED redisVars
    /\ UNCHANGED concVars

\* c.mgr.AccessCache(ctx, c.conf.Target, ...): the target is looked up by
\* name at every call; the writer keeps no handle from its construction.
AccessCacheWithHandleFromNew(exists, conf) == [found |-> conf.probe, lookups |-> 0]
AccessCache(exists, conf) == [found |-> exists, lookups |-> 1]

\* WriteWithContext entry up to mgr.AccessCache: a target that is absent is
\* the call's error, otherwise the closure runs with the cache.
WriteWithContext ==
    /\ cw = "built"
    /\ wpc = "idle"
    /\ \E b \in CacheBatches : wBatch' = b
    /\ lookups' = AccessCache(cacheExists, cwConf).lookups
    /\ nSet' = 0
    /\ nSetMulti' = 0
    /\ lastSet' = NoSet
    /\ lastItems' = NoItems
    /\ items' = NoItems
    /\ wResolved' = {}
    /\ IF ~AccessCache(cacheExists, cwConf).found
       THEN /\ wErr' = "notfound"
            /\ wpc' = "returned"
            /\ wIdx' = 0
       ELSE /\ wErr' = "pending"
            /\ wpc' = IF IsMulti(wBatch') THEN "iter" ELSE "single"
            /\ wIdx' = 1
    /\ dispatched' = TRUE
    /\ UNCHANGED <<cacheExists, cw, cwConf, wHist, wItemErrs>>
    /\ UNCHANGED redisVars
    /\ UNCHANGED concVars

\* writeMulti: the Iter callback for message wIdx; its error ends msg.Iter
\* and is the result of the call, no message is marked.
IterItemMarkingTheMessage ==
    /\ wpc = "iter"
    /\ wResolved' = wResolved \cup {wIdx}
    /\ LET p == wBatch[wIdx]
           r == ResolveTTL(p.ttl)
       IN  /\ items' = IF r.err # "none" THEN items
                       ELSE PutItem(items, p.key, p.payload, r.ttl)
           /\ wItemErrs' = IF r.err # "none" THEN wItemErrs \cup {wIdx} ELSE wItemErrs
           /\ wIdx' = wIdx + 1
           /\ wpc' = IF wIdx = Len(wBatch) THEN "setmulti" ELSE "iter"
           /\ UNCHANGED wErr
    /\ UNCHANGED <<cacheExists, cw, cwConf, wBatch, lookups, nSet, lastSet,
                   nSetMulti, lastItems, dispatched, wHist>>
    /\ UNCHANGED redisVars
    /\ UNCHANGED concVars
IterItem ==
    /\ wpc = "iter"
    /\ wResolved' = wResolved \cup {wIdx}
    /\ LET p == wBatch[wIdx]
           r == ResolveTTL(p.ttl)
       IN  IF r.err # "none"
           THEN /\ wErr' = r.err
                /\ wpc' = "returned"
                /\ UNCHANGED <<items, wIdx>>
           ELSE /\ items' = PutItem(items, p.key, p.payload, r.ttl)
                /\ wIdx' = wIdx + 1
                /\ wpc' = IF wIdx = Len(wBatch) THEN "setmulti" ELSE "iter"
                /\ UNCHANGED wErr
    /\ UNCHANGED <<cacheExists, cw, cwConf, wBatch, lookups, nSet, lastSet,
                   nSetMulti, lastItems, dispatched, wHist,
                   wItemErrs>>
    /\ UNCHANGED redisVars
    /\ UNCHANGED concVars

\* writeMulti: err = ac.SetMulti(ctx, items); the cache's answer is the
\* call's result.
SetMulti ==
    /\ wpc = "setmulti"
    /\ nSetMulti' = nSetMulti + 1
    /\ lastItems' = items
    /\ \E storeErr \in BOOLEAN : wErr' = IF storeErr THEN "store" ELSE "nil"
    /\ wpc' = "returned"
    /\ UNCHANGED <<cacheExists, cw, cwConf, wBatch, wIdx, items, wResolved, lookups,
                   nSet, lastSet, dispatched, wHist,
                   wItemErrs>>
    /\ UNCHANGED redisVars
    /\ UNCHANGED concVars

SetSingleWithoutReturn ==
    /\ wpc = "single"
    /\ wResolved' = wResolved \cup {1}
    /\ \E p \in PartsAtZero(wBatch) :
         LET r == ResolveTTL(p.ttl)
         IN  /\ nSet' = nSet + 1
             /\ lastSet' = [key |-> p.key, value |-> p.payload, ttl |-> r.ttl]
             /\ \E storeErr \in BOOLEAN : wErr' = IF storeErr THEN "store" ELSE "nil"
    /\ wpc' = "returned"
    /\ UNCHANGED <<cacheExists, cw, cwConf, wBatch, wIdx, items, lookups,
                   nSetMulti, lastItems, dispatched, wHist,
                   wItemErrs>>
    /\ UNCHANGED redisVars
    /\ UNCHANGED concVars

\* WriteWithContext, the closure of the single-message path: the ttl, then
\* err = cache.Set(ctx, key, payload, ttl).
SetSingle ==
    /\ wpc = "single"
    /\ wResolved' = wResolved \cup {1}
    /\ \E p \in PartsAtZero(wBatch) :
         LET r == ResolveTTL(p.ttl)
         IN  IF r.err # "none"
             THEN /\ wErr' = r.err
                  /\ UNCHANGED <<nSet, lastSet>>
             ELSE /\ nSet' = nSet + 1
                  /\ lastSet' = [key |-> p.key, value |-> p.payload, ttl |-> r.ttl]
                  /\ \E storeErr \in BOOLEAN : wErr' = IF storeErr THEN "store" ELSE "nil"
    /\ wpc' = "returned"
    /\ UNCHANGED <<cacheExists, cw, cwConf, wBatch, wIdx, items, lookups,
                   nSetMulti, lastItems, dispatched, wHist,
                   wItemErrs>>
    /\ UNCHANGED redisVars
    /\ UNCHANGED concVars

\* The shell takes the result of the call; the writer is free for the next
\* batch.
WriteDone ==
    /\ wpc = "returned"
    /\ wpc' = "idle"
    /\ wBatch' = WriteLocalsClear.wBatch
    /\ wIdx' = WriteLocalsClear.wIdx
    /\ items' = WriteLocalsClear.items
    /\ wErr' = WriteLocalsClear.wErr
    /\ wResolved' = WriteLocalsClear.wResolved
    /\ lookups' = WriteLocalsClear.lookups
    /\ nSet' = WriteLocalsClear.nSet
    /\ lastSet' = WriteLocalsClear.lastSet
    /\ nSetMulti' = WriteLocalsClear.nSetMulti
    /\ lastItems' = WriteLocalsClear.lastItems
    /\ wHist' = wHist \cup ({wErr} \cap {"notfound", "nil"})
    /\ UNCHANGED <<cacheExists, cw, cwConf, dispatched, wItemErrs>>
    /\ UNCHANGED redisVars
    /\ UNCHANGED concVars

CacheNext ==
    \/ NewCacheWriter
    \/ RegistryChange
    \/ WriteWithContext
    \/ IterItem
    \/ SetMulti
    \/ SetSingle
    \/ WriteDone

CacheSpec == CacheInit /\ [][CacheNext]_vars

(***************************************************************************)
(* The cache output: calls of WriteWithContext in flight together          *)
(***************************************************************************)

\* The calls that are inside their closure.
InFlight == {w \in Writers : cc[w].pc \in {"iter", "setmulti", "single"}}

\* The target is added to or removed from the registry; the registry does
\* not change under a closure that holds the cache.
ConcRegistryChange ==
    /\ InFlight = {}
    /\ cacheExists' = ~cacheExists
    /\ UNCHANGED <<cw, cwConf, wpc, wBatch, wIdx, items, wErr, wResolved, lookups,
                   nSet, lastSet, nSetMulti, lastItems, dispatched, wHist,
                   wItemErrs>>
    /\ UNCHANGED <<redisVars, concVars>>

\* Call w enters WriteWithContext with its batch, up to mgr.AccessCache.
ConcWrite(w) ==
    /\ cw = "built"
    /\ cc[w].pc = "idle"
    /\ \E b \in ConcBatches :
         IF ~AccessCache(cacheExists, cwConf).found
         THEN /\ cc' = [cc EXCEPT ![w] = [CallIdle EXCEPT !.pc = "returned",
                                                         !.batch = b,
                                                         !.err = "notfound"]]
              /\ UNCHANGED cItems
         ELSE /\ cc' = [cc EXCEPT ![w] = [CallIdle EXCEPT !.pc = IF IsMulti(b) THEN "iter"
                                                               ELSE "single",
                                                         !.batch = b,
                                                         !.idx = 1,
                                                         !.found = TRUE,
                                                         !.err = "pending",
                                                         !.overlapped = InFlight # {}]]
              /\ cItems' = IF IsMulti(b) THEN [cItems EXCEPT ![ItemsCell(w)] = NoItems]
                           ELSE cItems
    /\ UNCHANGED cLog
    /\ UNCHANGED <<redisVars, cacheVars>>

\* writeMulti of call w: the Iter callback for its message idx.
ConcIterItem(w) ==
    /\ cc[w].pc = "iter"
    /\ LET c == cc[w]
           p == c.batch[c.idx]
           r == ResolveTTL(p.ttl)
       IN  IF r.err # "none"
           THEN /\ cc' = [cc EXCEPT ![w].pc = "returned", ![w].err = r.err]
                /\ UNCHANGED cItems
           ELSE /\ cItems' = [cItems EXCEPT ![ItemsCell(w)] =
                                 PutItem(@, p.key, p.payload, r.ttl)]
                /\ cc' = [cc EXCEPT ![w].idx = c.idx + 1,
                                    ![w].pc = IF c.idx = Len(c.batch) THEN "setmulti"
                                              ELSE "iter"]
    /\ UNCHANGED cLog
    /\ UNCHANGED <<redisVars, cacheVars>>

\* writeMulti of call w: ac.SetMulti(ctx, items) and the return.
ConcSetMulti(w) ==
    /\ cc[w].pc = "setmulti"
    /\ \E storeErr \in BOOLEAN :
         LET a == IF storeErr THEN "store" ELSE "nil"
             wr == SetMultiWrite(cItems[ItemsCell(w)])
         IN  /\ cc' = [cc EXCEPT ![w].pc = "returned", ![w].err = a, ![w].ans = a,
                                 ![w].write = wr]
             /\ cLog' = cLog \cup {[by |-> w, write |-> wr]}
    /\ UNCHANGED cItems
    /\ UNCHANGED <<redisVars, cacheVars>>

\* The single-message closure of call w: the ttl, cache.Set and the return.
ConcSetSingle(w) ==
    /\ cc[w].pc = "single"
    /\ \E p \in PartsAtZero(cc[w].batch) :
         LET r == ResolveTTL(p.ttl)
         IN  IF r.err # "none"
             THEN /\ cc' = [cc EXCEPT ![w].pc = "returned", ![w].err = r.err]
                  /\ UNCHANGED cLog
             ELSE \E storeErr \in BOOLEAN :
                    LET a == IF storeErr THEN "store" ELSE "nil"
                        wr == SetWrite(p.key, p.payload, r.ttl)
                    IN  /\ cc' = [cc EXCEPT ![w].pc = "returned", ![w].err = a,
                                            ![w].ans = a, ![w].write = wr]
                        /\ cLog' = cLog \cup {[by |-> w, write |-> wr]}
    /\ UNCHANGED cItems
    /\ UNCHANGED <<redisVars, cacheVars>>

ConcNext ==
    \/ NewCacheWriter
    \/ ConcRegistryChange
    \/ \E w \in Writers : ConcWrite(w)
    \/ \E w \in Writers : ConcIterItem(w)
    \/ \E w \in Writers : ConcSetMulti(w)
    \/ \E w \in Writers : ConcSetSingle(w)

\* One writer, built once, with up to two calls in flight together.
ConcSpec == CacheInit /\ [][ConcNext]_vars

(***************************************************************************)
(* Properties of the redis processor, of specification Spec               *)
(***************************************************************************)

\* The operation of message j failed: it was never prepared into a call
\* that the server answered without error.
OwnOperationFailed(j) == succAt[j] = 0

\* C1: when ProcessBatch returns, the returned batch is as long as the
\* input, every message was resolved and dispatched whatever happened to
\* the messages before it, and a message carries an item error if and only
\* if its own operation failed.
C1_ItemLevelIsolation ==
    pc = "done" =>
        /\ Len(newMsg) = Len(inBatch)
        /\ \A j \in 1..Len(inBatch) :
             /\ j \in visited
             /\ opRet[j] # "pending"
             /\ (newMsg[j].err # NoErr) <=> OwnOperationFailed(j)

\* C1 witness: the first message failed after calls to the server, the
\* second was still dispatched and succeeded.
C1_Witness ==
    /\ pc = "done"
    /\ Len(inBatch) >= 2
    /\ calls[1] >= 1
    /\ newMsg[1].err # NoErr
    /\ calls[2] >= 1
    /\ newMsg[2].err = NoErr

\* C2: with retries = r the operation of one message is invoked at most r+1
\* times and the retry delay is slept at most r times.
C2_AtMostRetriesPlusOneCalls ==
    \A j \in DOMAIN calls : calls[j] <= retries + 1 /\ sleeps[j] <= retries

\* C3: once the context is cancelled during the retry delay of message j,
\* the operation is not invoked again for j and the error reported for j is
\* the cancellation error.
C3_CancelDuringDelayAborts ==
    \A j \in DOMAIN cancelAt :
        cancelAt[j] >= 0 =>
            /\ calls[j] = cancelAt[j]
            /\ opRet[j] # "pending" => newMsg[j].err.cause = "ctx"

\* C6: once an attempt for message j succeeded (the first or a retry), no
\* further invocation is made and no further delay slept for j, and the
\* message holds the result of that attempt and no item error.
C6_SuccessStopsRetrying ==
    \A j \in DOMAIN succAt :
        succAt[j] > 0 =>
            /\ succAt[j] <= retries + 2
            /\ calls[j] = succAt[j]
            /\ sleeps[j] = succAt[j] - 1
            /\ opRet[j] = "ok"
            /\ newMsg[j].content = ResultContent(operator, succRes[j])
            /\ newMsg[j].err = NoErr

\* C6 witness: a message succeeded on a retry, and the dispatch went on to
\* its end.
C6_Witness ==
    /\ pc = "done"
    /\ \E j \in DOMAIN succAt : succAt[j] = 2 /\ sleeps[j] = 1 /\ j < Len(inBatch)

\* The counter of key after the amounts of messages 1..j with that key.
RECURSIVE RunningTotal(_, _, _)
RunningTotal(b, key, j) ==
    IF j = 0 THEN 0
    ELSE RunningTotal(b, key, j - 1)
           + (IF b[j].content.key = key THEN b[j].content.val.n ELSE 0)

\* C9: command incrby with arguments [key, amount] against fresh counters:
\* as long as no call failed, the content of message j is the sum of the
\* amounts of the messages up to j that have j's key.
C9_RunningTotal ==
    (operator = "none" /\ command = "incrby") =>
        \A j \in 1..Len(inBatch) :
            (\A i \in 1..j :
                /\ inBatch[i].content.shape = "kv"
                /\ inBatch[i].content.val.t = "jint"
                /\ calls[i] = 1
                /\ succAt[i] = 1)
            => newMsg[j].content
                 = StructInt(RunningTotal(inBatch, inBatch[j].content.key, j))

\* C9 witness: amounts 10 then -2 on "ash" gave 10 then 8.
C9_Witness ==
    /\ operator = "none"
    /\ pc = "done"
    /\ Len(inBatch) >= 2
    /\ inBatch[1].content = InContent("ash", JInt(10), "kv")
    /\ inBatch[2].content = InContent("ash", JInt(-2), "kv")
    /\ calls[1] = 1
    /\ calls[2] = 1
    /\ newMsg[1].content = StructInt(10)
    /\ newMsg[2].content = StructInt(8)

(***************************************************************************)
(* Properties of the cache output, of specification CacheSpec             *)
(***************************************************************************)

BadTTL(ttls) == ttls # "" /\ ~ParseDuration(ttls).ok

\* The ttl a message's ttl string stands for, when it is empty or valid.
TTLOf(ttls) == IF ttls = "" THEN NilTTL ELSE SomeTTL(ParseDuration(ttls).d)

\* A Write call has returned.
WriteReturned == wpc = "returned"

\* C4: a batch of more than one message with an unparsable ttl at any index
\* causes no call of SetMulti and none of Set.
C4_NoWriteOnBadTTLMulti ==
    (Len(wBatch) > 1 /\ \E i \in 1..Len(wBatch) : BadTTL(wBatch[i].ttl)) =>
        /\ nSetMulti = 0
        /\ nSet = 0
        /\ WriteReturned => wErr \notin {"nil", "store"}

\* C4 witness: the only unparsable ttl is the last message's, the target was
\* found, and the call returned the ttl error.
C4_Witness ==
    /\ WriteReturned
    /\ Len(wBatch) > 1
    /\ BadTTL(wBatch[Len(wBatch)].ttl)
    /\ \A i \in 1..(Len(wBatch) - 1) : ~BadTTL(wBatch[i].ttl)
    /\ wErr = "ttl"

\* C5: a batch of one message with an unparsable ttl makes Write return an
\* error and call neither Set nor SetMulti.
C5_NoWriteOnBadTTLSingle ==
    (Len(wBatch) = 1 /\ BadTTL(wBatch[1].ttl)) =>
        /\ nSet = 0
        /\ nSetMulti = 0
        /\ WriteReturned => wErr \in {"ttl", "notfound"}

\* C5 witness: the target was found and the ttl error returned.
C5_Witness ==
    /\ WriteReturned
    /\ Len(wBatch) = 1
    /\ BadTTL(wBatch[1].ttl)
    /\ wErr = "ttl"

\* The batch reached the target: the lookup by name in the registry
\* succeeded and the closure ran with the cache.
TargetFound == wErr # "notfound"

\* C7: every returned Write of one message with an empty or valid ttl that
\* reached the target called Set exactly once, with the key of index 0, the
\* payload and the ttl (nil for the empty string, the duration otherwise),
\* never called SetMulti, and returned the store's answer, error or not,
\* without a second Set.
C7_SingleSetOnce ==
    (WriteReturned /\ TargetFound /\ Len(wBatch) = 1 /\ ~BadTTL(wBatch[1].ttl)) =>
        /\ nSet = 1
        /\ nSetMulti = 0
        /\ lastSet = [key |-> wBatch[1].key, value |-> wBatch[1].payload,
                      ttl |-> TTLOf(wBatch[1].ttl)]
        /\ wErr \in {"nil", "store"}

\* C7 witness: empty ttl, one Set without ttl, the store answered with an
\* error and Set was not repeated.
C7_Witness ==
    /\ WriteReturned
    /\ Len(wBatch) = 1
    /\ wBatch[1].ttl = ""
    /\ wErr = "store"
    /\ nSet = 1
    /\ lastSet = [key |-> wBatch[1].key, value |-> wBatch[1].payload, ttl |-> NilTTL]

\* The batch has no unparsable ttl.
AllTTLsFine(b) == \A i \in 1..Len(b) : ~BadTTL(b[i].ttl)

\* The last message of b that resolves to key k.
LastWithKey(b, k) ==
    CHOOSE i \in 1..Len(b) :
        b[i].key = k /\ \A j \in (i + 1)..Len(b) : b[j].key # k

\* C8 as stated: every returned Write of n > 1 messages without unparsable
\* ttl that reached the target called SetMulti exactly once and Set never,
\* and the mapping holds for every index i the entry
\* key(i) -> (payload(i), ttl(i)).
C8_EveryMessageInMapping ==
    (WriteReturned /\ TargetFound /\ Len(wBatch) > 1 /\ AllTTLsFine(wBatch)) =>
        /\ nSetMulti = 1
        /\ nSet = 0
        /\ \A i \in 1..Len(wBatch) :
             /\ wBatch[i].key \in DOMAIN lastItems
             /\ lastItems[wBatch[i].key]
                  = [value |-> wBatch[i].payload, ttl |-> TTLOf(wBatch[i].ttl)]

\* C8 amended: SetMulti was called exactly once and Set never, the keys of
\* the mapping are the keys the messages resolve to, and each key maps to
\* the payload and ttl of the LAST message with that key: every message is
\* in the mapping exactly when the keys are pairwise distinct.
C8_MappingLastPerKey ==
    (WriteReturned /\ TargetFound /\ Len(wBatch) > 1 /\ AllTTLsFine(wBatch)) =>
        /\ nSetMulti = 1
        /\ nSet = 0
        /\ wErr \in {"nil", "store"}
        /\ DOMAIN lastItems = {wBatch[i].key : i \in 1..Len(wBatch)}
        /\ \A k \in DOMAIN lastItems :
             LET i == LastWithKey(wBatch, k)
             IN  lastItems[k]
                   = [value |-> wBatch[i].payload, ttl |-> TTLOf(wBatch[i].ttl)]
        /\ (Cardinality(DOMAIN lastItems) = Len(wBatch))
             <=> (\A i, j \in 1..Len(wBatch) : wBatch[i].key = wBatch[j].key => i = j)

\* C8 witness: two messages with the same key and different payloads were
\* written with one SetMulti whose mapping has the single key.
C8_Witness ==
    /\ WriteReturned
    /\ Len(wBatch) > 1
    /\ wBatch[1].key = wBatch[2].key
    /\ wBatch[1].payload # wBatch[2].payload
    /\ wBatch[1].ttl = "60s"
    /\ nSetMulti = 1
    /\ Cardinality(DOMAIN lastItems) < Len(wBatch)

\* C11: every Write looks the target up by name exactly once; a Write made
\* while the target is absent, whatever was built or written before, returns
\* the registry's error and calls neither Set nor SetMulti; a Write made
\* while the target is present reaches the cache: with parsable ttls it
\* makes its one call and returns the store's answer.
C11_LookupAtEveryWrite ==
    WriteReturned =>
        /\ lookups = 1
        /\ ~cacheExists => (wErr = "notfound" /\ nSet = 0 /\ nSetMulti = 0)
        /\ cacheExists =>
             /\ wErr # "notfound"
             /\ (Len(wBatch) >= 1 /\ AllTTLsFine(wBatch)) =>
                  (nSet + nSetMulti = 1 /\ wErr \in {"nil", "store"})

\* C11 witness: after a Write that succeeded and a Write that returned the
\* registry's error, the target is back and this Write succeeded.
C11_Witness ==
    /\ WriteReturned
    /\ wHist = {"nil", "notfound"}
    /\ cwConf.probe
    /\ wErr = "nil"
    /\ nSet = 1

\* C10: a construction given a malformed key template, a malformed ttl
\* template or a target absent from the registry fails: there is no writer,
\* no batch is ever dispatched and nothing is ever written.
C10_ConstructionFailsFast ==
    (cw # "unbuilt" /\ (~cwConf.keyOk \/ ~cwConf.ttlOk \/ ~cwConf.probe)) =>
        /\ cw = "failed"
        /\ ~dispatched
        /\ wpc = "idle"
        /\ lookups = 0
        /\ nSet = 0
        /\ nSetMulti = 0

\* C10 witness: both templates were well formed and the target was absent
\* at construction; it is present now and there is still no writer.
C10_Witness ==
    /\ cw = "failed"
    /\ cwConf.keyOk
    /\ cwConf.ttlOk
    /\ ~cwConf.probe
    /\ cacheExists

-----------------------------------------------------------------------------
\* Context, order and mode of the redis processor (specification Spec)

\* C12: an external call issued once the context is cancelled is not
\* carried out: it does not succeed and leaves the store as it was, with an
\* operator configured as well as with a command.
C12_CancelledContextStopsCalls ==
    [][(ctxDone /\ calls' # calls) => (store' = store /\ succAt' = succAt)]_vars

\* C13: with a command configured and the context cancelled during the
\* dispatch, the dispatch reaches its return, and in the returned batch
\* every message whose call had not succeeded when the context was
\* cancelled carries an item error, and no message is without both a result
\* and an error.
C13_CancelledDispatchReturnsErrors ==
    /\ [](  (pc = "done" /\ operator = "none" /\ ctxDone)
         => \A j \in DOMAIN newMsg :
              /\ j \notin doneAtCancel => newMsg[j].err # NoErr
              /\ newMsg[j].err = NoErr =>
                   (opRet[j] = "ok" /\ newMsg[j].content = ResultContent("none", succRes[j])))
    /\ (operator = "none" /\ ctxDone /\ pc \notin {"idle", "done"}) ~> (pc = "done")

\* C13 witness: a returned batch of two, the first message done before the
\* cancellation, the second one returned with the cancellation error.
C13_Witness ==
    /\ pc = "done"
    /\ operator = "none"
    /\ ctxDone
    /\ Len(newMsg) = 2
    /\ doneAtCancel = {1}
    /\ newMsg[1].err = NoErr
    /\ calls[2] >= 1
    /\ newMsg[2].err.cause = "ctx"

\* C14: at every moment of a dispatch the messages before the current one
\* are finished, the messages after it are untouched (not resolved, no call,
\* no delay), and position j of the returned batch holds input message j,
\* with its own result when its call succeeded.
C14_StrictlySequential ==
    pc # "idle" =>
        /\ Len(newMsg) = Len(inBatch)
        /\ \A j \in DOMAIN newMsg :
             /\ j < index => (j \in visited /\ opRet[j] # "pending")
             /\ j > index =>
                  /\ j \notin visited
                  /\ path[j] = "none"
                  /\ calls[j] = 0
                  /\ sleeps[j] = 0
                  /\ opRet[j] = "pending"
             /\ (pc = "done" /\ j = index) => opRet[j] # "pending"
             /\ newMsg[j].content =
                  IF opRet[j] = "ok" THEN ResultContent(operator, succRes[j])
                  ELSE inBatch[j].content

\* C14 witness: the second of two messages is between its retries after the
\* first one went through a delay of its own and succeeded.
C14_Witness ==
    /\ Len(newMsg) = 2
    /\ index = 2
    /\ pc = "retry"
    /\ sleeps[1] >= 1
    /\ opRet[1] = "ok"
    /\ sleeps[2] >= 1

\* C15: operator and command never change after construction, and every
\* message that is handled goes through exactly one branch, the operator's
\* when an operator is configured (a configured command is then never
\* issued) and execRaw otherwise; the call in progress is that branch's.
C15_OneModeForLife ==
    /\ [][operator' = operator /\ command' = command]_vars
    /\ [](\A j \in DOMAIN path :
            /\ j \in visited =>
                 path[j] = (IF operator # "none" THEN "operator" ELSE "execRaw")
            /\ j \notin visited => path[j] = "none")
    /\ [](pc \in {"call", "sleep", "retry"} =>
            curArgs.cmd = (IF operator # "none" THEN operator ELSE command))

\* C15 witness: a processor configured with the operator scard and the
\* command incrby returned a batch of two whose calls were made.
C15_Witness ==
    /\ operator = "scard"
    /\ command = "incrby"
    /\ pc = "done"
    /\ Len(newMsg) = 2
    /\ \A j \in 1..2 : path[j] = "operator" /\ calls[j] >= 1

\* The parameters of input message j cannot be resolved: the args mapping
\* fails or yields no array (execRaw), or the content is no integer (incrby).
Unresolvable(j) ==
    \/ operator = "none" /\ inBatch[j].content.shape \in {"maperr", "nonarr"}
    \/ operator = "incrby" /\ inBatch[j].content.val.t # "jint"

\* C17: a message whose parameters cannot be resolved gets no external call
\* and no retry delay and leaves the store as it found it; once handled it
\* carries an item error, and the loop goes on to the messages after it.
C17_UnresolvableTouchesNothing ==
    \A j \in DOMAIN inBatch :
        Unresolvable(j) =>
            /\ calls[j] = 0
            /\ sleeps[j] = 0
            /\ j \in visited =>
                 /\ newMsg[j].err # NoErr
                 /\ newMsg[j].err.cause \in {"mapping", "nonarray", "atoi"}
                 /\ index > j \/ (pc = "done" /\ j = Len(inBatch))
            /\ pc = "done" => visited = DOMAIN inBatch

\* C17 witness: the first of two messages could not be resolved and the
\* second one was still called and holds its result.
C17_Witness ==
    /\ pc = "done"
    /\ Len(inBatch) = 2
    /\ Unresolvable(1)
    /\ newMsg[1].err # NoErr
    /\ calls[2] >= 1
    /\ opRet[2] = "ok"

\* C20: a message returned with an item error has the content it came in
\* with, after any number of failed attempts; a message whose call succeeded
\* has the result as content and no error; a message not yet returned is as
\* it came in.
C20_ErrorKeepsContent ==
    \A j \in DOMAIN newMsg :
        /\ opRet[j] = "pending" => newMsg[j] = inBatch[j]
        /\ opRet[j] = "ok" =>
             /\ newMsg[j].err = NoErr
             /\ newMsg[j].content = ResultContent(operator, succRes[j])
        /\ opRet[j] \notin {"pending", "ok"} =>
             /\ newMsg[j].err # NoErr
             /\ newMsg[j].content = inBatch[j].content

\* C20 witness: in a returned batch of two, one message failed after a retry
\* and the other one holds a result.
C20_Witness ==
    /\ pc = "done"
    /\ Len(newMsg) = 2
    /\ calls[1] >= 2
    /\ newMsg[1].err # NoErr
    /\ newMsg[1].content = inBatch[1].content
    /\ opRet[2] = "ok"
    /\ newMsg[2].content # inBatch[2].content

-----------------------------------------------------------------------------
\* Failure unit, empty batches and concurrent calls of the cache output

\* The first message of b whose ttl does not parse.
FirstBadTTL(b) ==
    CHOOSE i \in 1..Len(b) :
        BadTTL(b[i].ttl) /\ \A k \in 1..(i - 1) : ~BadTTL(b[k].ttl)

\* C16: a batch of several messages one of whose ttls does not parse fails
\* as one unit: the call returns the ttl error, no message of the batch is
\* marked with an error, the messages after the first offending one are not
\* resolved, and nothing is written.
C16_BatchFailsAsOneUnit ==
    (WriteReturned /\ TargetFound /\ Len(wBatch) > 1 /\ ~AllTTLsFine(wBatch)) =>
        /\ wErr = "ttl"
        /\ wItemErrs = {}
        /\ wResolved = 1..FirstBadTTL(wBatch)
        /\ nSetMulti = 0
        /\ nSet = 0

\* C16 witness: the first of two messages has the ttl that does not parse,
\* the second one a good ttl, and the call returned.
C16_Witness ==
    /\ WriteReturned
    /\ Len(wBatch) = 2
    /\ BadTTL(wBatch[1].ttl)
    /\ ~BadTTL(wBatch[2].ttl)
    /\ wErr = "ttl"
    /\ wResolved = {1}

\* C18: a call of WriteWithContext with a batch of no messages writes
\* nothing, neither with Set nor with SetMulti.
C18_EmptyBatchWritesNothing ==
    (WriteReturned /\ Len(wBatch) = 0) => (nSet = 0 /\ nSetMulti = 0)

\* What a call with batch b does when it runs with no other call: found is
\* the answer of the registry, ans the answer of the cache to its write.
AloneResult(b, found, ans) ==
    IF ~found THEN [err |-> "notfound", write |-> NoWrite]
    ELSE IF ~AllTTLsFine(b) THEN [err |-> "ttl", write |-> NoWrite]
    ELSE IF Len(b) = 1
    THEN [err |-> ans, write |-> SetWrite(b[1].key, b[1].payload, TTLOf(b[1].ttl))]
    ELSE [err |-> ans,
          write |-> SetMultiWrite(
                      [k \in {b[i].key : i \in 1..Len(b)} |->
                         [value |-> b[LastWithKey(b, k)].payload,
                          ttl |-> TTLOf(b[LastWithKey(b, k)].ttl)]])]

\* The calls that have returned.
ReturnedCalls == {w \in Writers : cc[w].pc = "returned"}

\* C19: with two calls of WriteWithContext in flight together on one
\* writer, under every interleaving each returned call has made the write
\* and returned the result it makes and returns alone, given the same
\* answers of the registry and of the cache, and the cache has received the
\* writes of the two calls and no other.
C19_ConcurrentCallsIndependent ==
    /\ \A w \in ReturnedCalls :
         [err |-> cc[w].err, write |-> cc[w].write]
             = AloneResult(cc[w].batch, cc[w].found, cc[w].ans)
    /\ cLog = {[by |-> w, write |-> cc[w].write] :
                 w \in {v \in ReturnedCalls : cc[v].write.kind # "none"}}

\* C19 witness: both calls returned, the second one begun while the first
\* one was in its closure, each with a SetMulti of its own key.
C19_Witness ==
    /\ ReturnedCalls = Writers
    /\ cc[2].overlapped
    /\ cc[1].write.kind = "setmulti"
    /\ cc[2].write.kind = "setmulti"
    /\ DOMAIN cc[1].write.items = {"x1"}
    /\ DOMAIN cc[2].write.items = {"x2"}
    /\ Len(cc[1].batch) = 2

-----------------------------------------------------------------------------
\* The input batch and the copy of the redis processor (specification Spec)

\* The key and the argument of message j as the input batch gives them.
KeyFromInput(j) ==
    IF operator = "none" /\ inBatch[j].content.shape = "first"
    THEN inBatch[1].content.key
    ELSE inBatch[j].content.key
ArgFromInput(j) ==
    LET v == inBatch[j].content.val
    IN  CASE operator = "none" -> NormaliseArg(v)
          [] operator = "incrby" -> [t |-> "int", n |-> v.n]
          [] operator = "sadd" -> v
          [] OTHER -> NoVal

\* C21: during and after a dispatch the input batch is as the caller gave
\* it, without results or item errors, which go to the copy; the key, the
\* command and the argument of the call for message j are those the input
\* batch gives, whatever results and errors the messages before j got, and
\* a message that the input batch lets resolve is not failed in resolving.
C21_ResolvedFromTheInputBatch ==
    /\ [][pc # "idle" => inBatch' = inBatch]_vars
    /\ [](\A j \in DOMAIN inBatch :
            /\ inBatch[j].err = NoErr
            /\ inBatch[j].content.t = "in"
            /\ (j \in visited /\ ~Unresolvable(j)) =>
                 opRet[j] \notin {"mapping", "nonarray", "atoi"}
            /\ (j = index /\ pc \in {"call", "sleep", "retry"}) =>
                 /\ curArgs.cmd = (IF operator # "none" THEN operator ELSE command)
                 /\ curArgs.key = KeyFromInput(j)
                 /\ curArgs.arg = ArgFromInput(j))

\* C21 witness: the second message takes its key from the first message of
\* the batch, whose content in the copy is by then a result; both calls
\* went to the key of the first input message.
C21_Witness ==
    /\ pc = "done"
    /\ Len(inBatch) = 2
    /\ inBatch[2].content.shape = "first"
    /\ inBatch[1].content.key = "ash"
    /\ opRet[1] = "ok"
    /\ newMsg[1].content # inBatch[1].content
    /\ opRet[2] = "ok"
    /\ store.counters["ash"] = 8
    /\ store.counters["bob"] = 0


====
